---- MODULE Spec2Model ----
(***************************************************************************)
(* Task lifecycle of the receipt scanner backend: create_task and get_task *)
(* (app/frontend_routers.py), the background run process_task              *)
(* (app/background_tasks.py), the tasks table (app/database.py) and the    *)
(* extraction collaborator JsonParser.parse_image (app/json_parser.py).    *)
(*                                                                         *)
(* Storage model: a commit is the durable write; it either succeeds or     *)
(* raises (constraint violation or storage failure).  Queries are reads of *)
(* the committed rows.  Spec is the program as the router drives it;       *)
(* SpecFaults adds direct calls of process_task and a failing lookup.      *)
(***************************************************************************)
EXTENDS Integers, Sequences, FiniteSets, TLC

\* Bounds of the model.
MaxTasks == 2        \* distinct values uuid4 may return
MaxReqs == 2         \* create_task requests issued
MaxClock == 1        \* ticks of datetime.utcnow

TaskIds == 1..MaxTasks
Reqs == 1..MaxReqs
NoId == 0

\* Uploaded file contents, in the order in which they are first uploaded.
Images == <<"fake-image", "other-image">>
NoImage == ""

(***************************************************************************)
(* JSON values, written as their text.  JNull is Python None / SQL NULL.   *)
(***************************************************************************)
JNull == "null"
EmptyObj == "{}"
ReceiptA == "{total_amount:12.5,items:[]}"
JsonValues == {JNull, EmptyObj, ReceiptA}
JsonError == "JSONDecodeError"

\* Python truth value of a JSON value (if task.extracted_json:).
Truthy(v) == v \notin {JNull, EmptyObj}

(***************************************************************************)
(* The model's reply (response.choices[0].message.content) as a sequence   *)
(* of tokens: markdown fences, prose, JSON documents.                      *)
(***************************************************************************)
FenceJson == "<fence>json"   \* three backquotes followed by json
Fence == "<fence>"           \* three backquotes
Prose == "Here is the receipt:"

ModelContents ==
    {<<>>, <<Prose>>, <<Prose, FenceJson, ReceiptA, Fence>>, <<ReceiptA, ReceiptA>>}
    \cup {<<v>> : v \in JsonValues}
    \cup {<<FenceJson, v, Fence>> : v \in JsonValues}

IsFence(tok) == tok \in {FenceJson, Fence}

\* json_text.replace(FenceJson, "").replace(Fence, "")
StripFences(text) == SelectSeq(text, LAMBDA tok : ~IsFence(tok))

\* json.loads: one JSON document and nothing else, or JSONDecodeError.
JsonLoads(text) ==
    IF Len(text) = 1 /\ text[1] \in JsonValues THEN text[1] ELSE JsonError

\* JsonParser.parse_image: every failure inside the try block returns {}.
parse_image(upload_ok, api_ok, content) ==
    IF ~upload_ok THEN EmptyObj
    ELSE IF ~api_ok THEN EmptyObj
    ELSE LET v == JsonLoads(StripFences(content))
         IN  IF v = JsonError THEN EmptyObj ELSE v

\* The ways a parse_image call can go: the upload fails (the model is never
\* called), the model call fails, or the model replies with some content.
CollaboratorCalls ==
    {[upload_ok |-> FALSE, api_ok |-> FALSE, content |-> <<>>],
     [upload_ok |-> TRUE, api_ok |-> FALSE, content |-> <<>>]}
    \cup {[upload_ok |-> TRUE, api_ok |-> TRUE, content |-> c] : c \in ModelContents}

\* Whether parse_image got through upload, model call and json.loads.
extraction_ok(upload_ok, api_ok, content) ==
    upload_ok /\ api_ok /\ JsonLoads(StripFences(content)) # JsonError

(***************************************************************************)
(* State.                                                                  *)
(***************************************************************************)
VARIABLES
    store,      \* committed rows of table "tasks": task_id -> row
    creq,       \* create_task requests: position, generated id, upload
    run,        \* process_task runs, one slot per create_task request
    polled,     \* the last get_task call: its task_id and its response
    now         \* datetime.utcnow

vars == <<store, creq, run, polled, now>>

\* HTTP responses of get_task.
NoResp == [code |-> 0, status |-> "", has_json |-> FALSE, extracted_json |-> JNull]
NotFound == [code |-> 404, status |-> "", has_json |-> FALSE, extracted_json |-> JNull]
Processing == [code |-> 200, status |-> "processing",
               has_json |-> FALSE, extracted_json |-> JNull]

IdleReq == [pc |-> "idle", task_id |-> NoId, contents |-> NoImage, returned |-> NoId]
NoRun == [pc |-> "none", session |-> "none", image |-> NoImage, task_json |-> JNull,
          json_data |-> JNull, extraction |-> "none", outcome |-> "none"]

Init ==
    /\ store = <<>>
    /\ creq = [r \in Reqs |-> IdleReq]
    /\ run = [r \in Reqs |-> NoRun]
    /\ polled = [task_id |-> NoId, resp |-> NoResp]
    /\ now = 0

\* class Task: the row create_task inserts.
NewTask(id, contents) ==
    [image_data |-> contents, extracted_json |-> JNull,
     created_at |-> now, updated_at |-> now]

\* Variant: the column is no key, so an insert replaces the row of that id.
PrimaryKeyFree_NoKey(id) == id \in TaskIds

\* task_id = Column(String, primary_key=True): an insert needs an unused key.
PrimaryKeyFree(id) == id \notin DOMAIN store

\* Task.generate_task_id: str(uuid.uuid4()).  The value is either one a request
\* has drawn before or a new one; new values are numbered in the order drawn.
DrawnIds == {creq[r].task_id : r \in Reqs} \ {NoId}
generate_task_id ==
    DrawnIds \cup {id \in TaskIds : id - 1 = Cardinality(DrawnIds)}

\* await file.read(): the upload is either a content uploaded before or the
\* next new one.
Uploaded == {creq[r].contents : r \in Reqs} \ {NoImage}
file_read ==
    Uploaded \cup {Images[i] : i \in {j \in DOMAIN Images : j - 1 = Cardinality(Uploaded)}}

\* The values of utcnow that rows hold.
Timestamps == {store[t].created_at : t \in DOMAIN store}
              \cup {store[t].updated_at : t \in DOMAIN store}

\* datetime.utcnow advances.  Readings are numbered in the order in which
\* writes observe them: the clock moves on from a reading some row holds.
Tick ==
    /\ now < MaxClock
    /\ now \in Timestamps
    /\ now' = now + 1
    /\ UNCHANGED <<store, creq, run, polled>>

(***************************************************************************)
(* create_task                                                             *)
(***************************************************************************)
\* Variant: db.commit() is left out, so the row never becomes durable.
CreateCommit_NoCommit(r) ==
    /\ creq[r].pc = "idle"
    /\ r > 1 => creq[r - 1].pc # "idle"
    /\ \E contents \in file_read, id \in generate_task_id :
          creq' = [creq EXCEPT ![r] = [pc |-> "committed", task_id |-> id,
                                      contents |-> contents, returned |-> NoId]]
    /\ UNCHANGED <<store, run, polled, now>>

\* Variant: the exception of a failing commit is swallowed and the handler
\* goes on to schedule the run and to return the id.
CreateCommit_SwallowFailure(r) ==
    /\ creq[r].pc = "idle"
    /\ r > 1 => creq[r - 1].pc # "idle"
    /\ \E contents \in file_read, id \in generate_task_id, commit_ok \in BOOLEAN :
          /\ store' = IF commit_ok /\ PrimaryKeyFree(id)
                      THEN (id :> NewTask(id, contents)) @@ store
                      ELSE store
          /\ creq' = [creq EXCEPT ![r] = [pc |-> "committed", task_id |-> id,
                                          contents |-> contents, returned |-> NoId]]
    /\ UNCHANGED <<run, polled, now>>

\* Variant: a commit that fails for another reason than the key leaves the
\* inserted row behind.
CreateCommit_FailedKeepsRow(r) ==
    /\ creq[r].pc = "idle"
    /\ r > 1 => creq[r - 1].pc # "idle"
    /\ \E contents \in file_read, id \in generate_task_id, commit_ok \in BOOLEAN :
          /\ store' = IF PrimaryKeyFree(id)
                      THEN (id :> NewTask(id, contents)) @@ store
                      ELSE store
          /\ creq' = [creq EXCEPT ![r] =
                         IF commit_ok /\ PrimaryKeyFree(id)
                         THEN [pc |-> "committed", task_id |-> id,
                               contents |-> contents, returned |-> NoId]
                         ELSE [pc |-> "failed", task_id |-> id,
                               contents |-> NoImage, returned |-> NoId]]
    /\ UNCHANGED <<run, polled, now>>

\* file.read(), generate_task_id(), Task(...), db.add, db.commit.
CreateCommit(r) ==
    /\ creq[r].pc = "idle"
    /\ r > 1 => creq[r - 1].pc # "idle"
    /\ \E contents \in file_read, id \in generate_task_id, commit_ok \in BOOLEAN :
          IF commit_ok /\ PrimaryKeyFree(id)
          THEN /\ store' = (id :> NewTask(id, contents)) @@ store
               /\ creq' = [creq EXCEPT ![r] = [pc |-> "committed", task_id |-> id,
                                               contents |-> contents, returned |-> NoId]]
          ELSE /\ store' = store
               /\ creq' = [creq EXCEPT ![r] = [pc |-> "failed", task_id |-> id,
                                               contents |-> NoImage, returned |-> NoId]]
    /\ UNCHANGED <<run, polled, now>>

\* db.refresh(new_task); background_tasks.add_task(process_task, task_id).
CreateSchedule(r) ==
    /\ creq[r].pc = "committed"
    /\ creq' = [creq EXCEPT ![r].pc = "scheduled"]
    /\ run' = [run EXCEPT ![r].pc = "scheduled"]
    /\ UNCHANGED <<store, polled, now>>

\* return {"task_id": task_id}
CreateReturn(r) ==
    /\ creq[r].pc = "scheduled"
    /\ creq' = [creq EXCEPT ![r].pc = "responded", ![r].returned = creq[r].task_id]
    /\ UNCHANGED <<store, run, polled, now>>

(***************************************************************************)
(* get_task                                                                *)
(***************************************************************************)
\* Variant: a missing row is answered like a row without a result.
get_task_MissingIsProcessing(task_id) ==
    IF task_id \notin DOMAIN store \/ store[task_id].extracted_json = JNull
    THEN [code |-> 200, status |-> "processing",
          has_json |-> FALSE, extracted_json |-> JNull]
    ELSE [code |-> 200, status |-> "completed",
          has_json |-> Truthy(store[task_id].extracted_json),
          extracted_json |-> IF Truthy(store[task_id].extracted_json)
                             THEN store[task_id].extracted_json ELSE JNull]

\* Variant: the status is decided by the truth value of extracted_json
\* (if not task.extracted_json) instead of the test against None.
get_task_StatusByTruth(task_id) ==
    IF task_id \notin DOMAIN store THEN NotFound
    ELSE IF Truthy(store[task_id].extracted_json)
    THEN [code |-> 200, status |-> "completed",
          has_json |-> TRUE, extracted_json |-> store[task_id].extracted_json]
    ELSE [code |-> 200, status |-> "processing",
          has_json |-> FALSE, extracted_json |-> JNull]

\* The response is {"task_id", "status"} and, when has_json, "extracted_json".
get_task(task_id) ==
    IF task_id \notin DOMAIN store THEN NotFound
    ELSE LET task == store[task_id]
         IN  IF task.extracted_json = JNull
             THEN Processing
             ELSE IF Truthy(task.extracted_json)
             THEN [code |-> 200, status |-> "completed",
                   has_json |-> TRUE, extracted_json |-> task.extracted_json]
             ELSE [code |-> 200, status |-> "completed",
                   has_json |-> FALSE, extracted_json |-> JNull]

\* Variant: the poll touches the row it reads, as an UPDATE would.
GetTask_TouchesRow(t) ==
    /\ polled' = [task_id |-> t, resp |-> get_task(t)]
    /\ store' = IF t \in DOMAIN store
                THEN [store EXCEPT ![t].updated_at = now]
                ELSE store
    /\ UNCHANGED <<creq, run, now>>

GetTask(t) ==
    /\ polled' = [task_id |-> t, resp |-> get_task(t)]
    /\ UNCHANGED <<store, creq, run, now>>

(***************************************************************************)
(* process_task                                                            *)
(***************************************************************************)
\* Variant: the run may start as soon as it is added, before the response.
BackgroundStart_Eager(r) == run[r].pc = "scheduled"

\* The framework runs the tasks added with add_task after the response of
\* the request that added them has been produced.
BackgroundStart(r) == run[r].pc = "scheduled" /\ creq[r].pc = "responded"

\* except Exception: print; db.rollback() -- the pending change is dropped.
rollback(rn) == [rn EXCEPT !.outcome = "rolled_back"]

\* Variant: the generator is not resumed, so db.close() never runs.
close_NoRelease(rn) == [rn EXCEPT !.pc = "done"]

\* finally: next(db_gen) resumes get_db, whose finally runs db.close().
close(rn) == [rn EXCEPT !.pc = "done", !.session = "closed"]

\* Variant: a missing task is created on the spot (get-or-create) before the
\* early return.
Lookup_InsertsMissing(r) ==
    LET id == creq[r].task_id
        opened == [run[r] EXCEPT !.session = "open"]
    IN  IF id \notin DOMAIN store
        THEN /\ run' = [run EXCEPT ![r] = close([opened EXCEPT !.outcome = "not_found"])]
             /\ store' = (id :> NewTask(id, NoImage)) @@ store
             /\ UNCHANGED <<creq, polled, now>>
        ELSE /\ run' = [run EXCEPT ![r] = [opened EXCEPT
                                             !.pc = "loaded",
                                             !.image = store[id].image_data,
                                             !.task_json = store[id].extracted_json]]
             /\ UNCHANGED <<store, creq, polled, now>>

\* db = next(get_db()); the query; if not task: print, return (and finally).
Lookup(r) ==
    /\ LET id == creq[r].task_id
           opened == [run[r] EXCEPT !.session = "open"]
       IN  IF id \notin DOMAIN store
           THEN run' = [run EXCEPT ![r] = close([opened EXCEPT !.outcome = "not_found"])]
           ELSE run' = [run EXCEPT ![r] = [opened EXCEPT
                                             !.pc = "loaded",
                                             !.image = store[id].image_data,
                                             !.task_json = store[id].extracted_json]]
    /\ UNCHANGED <<store, creq, polled, now>>

\* process_task as the background task create_task added.
ProcLookup(r) ==
    /\ BackgroundStart(r)
    /\ Lookup(r)

\* process_task(task_id) called by another caller than create_task's
\* background task, with the id a failed create_task drew: the id is absent
\* from the store unless another request has committed it.
ProcLookupDirect(r) ==
    /\ creq[r].pc = "failed"
    /\ run[r].pc = "none"
    /\ Lookup(r)

\* The query of the lookup raises: the statement is outside the inner try, so
\* only the finally clause runs and the exception leaves process_task.
ProcLookupRaises(r) ==
    /\ BackgroundStart(r)
    /\ run' = [run EXCEPT ![r] =
                  close([run[r] EXCEPT !.session = "open", !.outcome = "escaped"])]
    /\ UNCHANGED <<store, creq, polled, now>>

\* json_data = json_parser.parse_image(task.image_data).  parse_image turns
\* the failures of its try block into {}; an exception that still leaves the
\* call (raised by its except handler's print, or by a replaced collaborator)
\* is caught by process_task: rollback, then the finally clause.
ProcParse(r) ==
    /\ run[r].pc = "loaded"
    /\ \/ run' = [run EXCEPT ![r] =
                      close(rollback([run[r] EXCEPT !.extraction = "raised"]))]
       \/ \E c \in CollaboratorCalls :
             run' = [run EXCEPT
                       ![r].pc = "parsed",
                       ![r].json_data = parse_image(c.upload_ok, c.api_ok, c.content),
                       ![r].extraction =
                          IF extraction_ok(c.upload_ok, c.api_ok, c.content)
                          THEN "success" ELSE "failed"]
    /\ UNCHANGED <<store, creq, polled, now>>

\* Variant: the run also drops the stored image once it has a result.
FlushTask_ClearsImage(r, id) ==
    IF run[r].json_data = run[r].task_json
    THEN store
    ELSE [store EXCEPT ![id].extracted_json = run[r].json_data,
                       ![id].image_data = NoImage,
                       ![id].updated_at = now]

\* Variant: the UPDATE has no WHERE clause and writes the result to every row.
FlushTask_WritesAllRows(r, id) ==
    IF run[r].json_data = run[r].task_json
    THEN store
    ELSE [t \in DOMAIN store |->
             [store[t] EXCEPT !.extracted_json = run[r].json_data,
                              !.updated_at = now]]

\* Variant: updated_at has no onupdate and keeps its value of the insert.
FlushTask_KeepsStamp(r, id) ==
    IF run[r].json_data = run[r].task_json
    THEN store
    ELSE [store EXCEPT ![id].extracted_json = run[r].json_data]

\* The UPDATE a commit flushes: the attribute is written only when its value
\* differs from the one the session loaded; onupdate refreshes updated_at.
FlushTask(r, id) ==
    IF run[r].json_data = run[r].task_json
    THEN store
    ELSE [store EXCEPT ![id].extracted_json = run[r].json_data,
                       ![id].updated_at = now]

\* Variant: after the rollback of a failed commit the except branch stores and
\* commits the empty object.
ProcCommit_StoreEmptyOnFailure(r) ==
    /\ run[r].pc = "parsed"
    /\ \E commit_ok \in BOOLEAN :
          IF commit_ok /\ creq[r].task_id \in DOMAIN store
          THEN /\ store' = IF run[r].json_data = run[r].task_json
                           THEN store
                           ELSE [store EXCEPT
                                   ![creq[r].task_id].extracted_json = run[r].json_data,
                                   ![creq[r].task_id].updated_at = now]
               /\ run' = [run EXCEPT ![r] =
                             close([run[r] EXCEPT !.outcome = "committed"])]
          ELSE /\ store' = IF creq[r].task_id \in DOMAIN store
                           THEN [store EXCEPT
                                   ![creq[r].task_id].extracted_json = EmptyObj,
                                   ![creq[r].task_id].updated_at = now]
                           ELSE store
               /\ run' = [run EXCEPT ![r] = close(rollback(run[r]))]
    /\ UNCHANGED <<creq, polled, now>>

\* task.extracted_json = json_data; db.commit(); on success print and the
\* finally clause; when the commit raises: rollback, then the finally clause.
ProcCommit(r) ==
    /\ run[r].pc = "parsed"
    /\ \E commit_ok \in BOOLEAN :
          IF commit_ok /\ creq[r].task_id \in DOMAIN store
          THEN /\ store' = FlushTask(r, creq[r].task_id)
               /\ run' = [run EXCEPT ![r] =
                             close([run[r] EXCEPT !.outcome = "committed"])]
          ELSE /\ store' = store
               /\ run' = [run EXCEPT ![r] = close(rollback(run[r]))]
    /\ UNCHANGED <<creq, polled, now>>

Next ==
    \/ Tick
    \/ \E r \in Reqs : CreateCommit(r)
    \/ \E r \in Reqs : CreateSchedule(r)
    \/ \E r \in Reqs : CreateReturn(r)
    \/ \E t \in TaskIds : GetTask(t)
    \/ \E r \in Reqs : ProcLookup(r)
    \/ \E r \in Reqs : ProcParse(r)
    \/ \E r \in Reqs : ProcCommit(r)

Spec == Init /\ [][Next]_vars

\* The same program with callers and faults outside the normal operation:
\* direct calls of process_task and a lookup query that raises.
NextFaults ==
    \/ Next
    \/ \E r \in Reqs : ProcLookupDirect(r)
    \/ \E r \in Reqs : ProcLookupRaises(r)

SpecFaults == Init /\ [][NextFaults]_vars

\* create_task and process_task alone, with the same callers and faults:
\* get_task writes neither the store nor a run, and the clock only stamps
\* rows, so the claims about the course of a run are checked without them.
NextRuns ==
    \/ \E r \in Reqs : CreateCommit(r)
    \/ \E r \in Reqs : CreateSchedule(r)
    \/ \E r \in Reqs : CreateReturn(r)
    \/ \E r \in Reqs : ProcLookup(r)
    \/ \E r \in Reqs : ProcLookupDirect(r)
    \/ \E r \in Reqs : ProcLookupRaises(r)
    \/ \E r \in Reqs : ProcParse(r)
    \/ \E r \in Reqs : ProcCommit(r)

SpecRuns == Init /\ [][NextRuns]_vars

(***************************************************************************)
(* Properties.                                                             *)
(***************************************************************************)
\* Requests whose insert was committed, and the ids they committed.
CommittedReqs == {r \in Reqs : creq[r].pc \in {"committed", "scheduled", "responded"}}
CommittedIds == {creq[r].task_id : r \in CommittedReqs}

\* C1: once create_task has returned a task_id, the row of that id is in the
\* store, and as long as no process_task run has committed for it, get_task
\* on it answers 200 with status "processing" (not 404, not "completed").
C1_CreatedIsProcessing ==
    \A r \in Reqs :
        creq[r].pc = "responded" =>
            /\ creq[r].returned \in DOMAIN store
            /\ run[r].outcome # "committed" =>
                   /\ get_task(creq[r].returned) = Processing
                   /\ polled.task_id = creq[r].returned =>
                          polled.resp.status # "completed"

\* The run of a returned task is between the collaborator call and its commit,
\* and get_task has just answered "processing" for it.
C1_Witness ==
    \E r \in Reqs :
        /\ creq[r].pc = "responded"
        /\ run[r].pc = "parsed"
        /\ run[r].json_data = ReceiptA
        /\ run[r].session = "open"
        /\ polled = [task_id |-> creq[r].returned, resp |-> Processing]

\* C2 (as claimed): after a run has committed a successful extraction,
\* get_task answers "completed" with an extracted_json field equal to the value
\* the collaborator returned, whatever that value is (stated here for the
\* values other than null, which the row cannot tell from "no result").
C2_CompletedCarriesResult ==
    \A r \in Reqs :
        (/\ run[r].outcome = "committed"
         /\ run[r].extraction = "success"
         /\ run[r].json_data # JNull) =>
            LET resp == get_task(creq[r].task_id)
            IN  /\ resp.status = "completed"
                /\ resp.has_json
                /\ resp.extracted_json = run[r].json_data

\* C3 (as claimed): after a run whose extraction failed (the collaborator
\* raised, or returned its failure value and the run committed it), get_task
\* answers 200 "completed" with an extracted_json field equal to {}.
C3_FailedIsCompletedEmpty ==
    \A r \in Reqs :
        (/\ run[r].pc = "done"
         /\ \/ run[r].extraction = "raised"
            \/ run[r].extraction = "failed" /\ run[r].outcome = "committed") =>
            get_task(creq[r].task_id) =
                [code |-> 200, status |-> "completed",
                 has_json |-> TRUE, extracted_json |-> EmptyObj]

\* C4: for a task_id no create_task has committed, get_task answers 404, in
\* every reachable state, and the last answer given for it was 404.
C4_UnknownIsNotFound ==
    \A t \in TaskIds :
        t \notin CommittedIds =>
            /\ get_task(t) = NotFound
            /\ polled.task_id = t => polled.resp = NotFound

\* get_task answered 404 for an id that was never committed while another task
\* is stored and completed.
C4_Witness ==
    /\ polled.task_id \in TaskIds \ CommittedIds
    /\ polled.resp.code = 404
    /\ \E t \in DOMAIN store : store[t].extracted_json # JNull

\* C5: a process_task run that has started (it has looked its task up, called
\* the collaborator or committed) belongs to a create_task request whose
\* response, carrying the task_id, has already been produced.
C5_RespondsBeforeProcessing ==
    \A r \in Reqs :
        run[r].pc \notin {"none", "scheduled"} =>
            /\ creq[r].pc = "responded"
            /\ creq[r].returned = creq[r].task_id

\* The response is out and the run of its task is inside the collaborator call.
C5_Witness ==
    \E r \in Reqs :
        /\ creq[r].pc = "responded"
        /\ run[r].pc = "loaded"
        /\ store[creq[r].task_id].extracted_json = JNull

\* C6: every get_task call on an existing task answers 200 with a status
\* derived from the stored row: "processing" iff extracted_json is null,
\* "completed" iff a result (possibly empty) is stored; nothing else.
C6_StatusDerivedFromRow ==
    [][(polled' # polled /\ polled'.task_id \in DOMAIN store) =>
          LET task == store[polled'.task_id]
              resp == polled'.resp
          IN  /\ resp.code = 200
              /\ resp.status \in {"processing", "completed"}
              /\ resp.status = "processing" <=> task.extracted_json = JNull
              /\ resp.status = "completed" <=> task.extracted_json # JNull]_vars

\* get_task answered "completed" for a task whose stored result is empty.
C6_Witness ==
    /\ polled.task_id \in DOMAIN store
    /\ store[polled.task_id].extracted_json = EmptyObj
    /\ polled.resp.status = "completed"

\* C7: once get_task has answered "completed" for a task, get_task on that
\* task answers "completed" in every later state.
C7_CompletedStays ==
    polled.resp.status = "completed" =>
        get_task(polled.task_id).status = "completed"

\* get_task answered "completed" for a task whose run is over, and a
\* create_task that drew the same id has failed on the primary key.
C7_Witness ==
    /\ polled.resp.status = "completed"
    /\ \E r \in Reqs : creq[r].task_id = polled.task_id /\ run[r].pc = "done"
    /\ \E r \in Reqs : creq[r].pc = "failed" /\ creq[r].task_id = polled.task_id

\* C8: after get_task has answered "completed" for a task, every get_task on
\* it gives that same response: the stored result no longer changes.
C8_CompletedResponseStable ==
    polled.resp.status = "completed" =>
        get_task(polled.task_id) = polled.resp

\* get_task answered "completed" with a result, the run is over, the clock has
\* moved on and the other task has been completed with another result.
C8_Witness ==
    /\ polled.resp.status = "completed"
    /\ polled.resp.has_json
    /\ polled.resp.extracted_json = ReceiptA
    /\ now > store[polled.task_id].updated_at
    /\ \E r \in Reqs : creq[r].task_id = polled.task_id /\ run[r].pc = "done"
    /\ \E t \in DOMAIN store : t # polled.task_id /\ store[t].extracted_json = EmptyObj

\* C9 (as claimed): a process_task run on an existing task whose commit, if it
\* came to one, did not fail ends with a non-null result stored for the task.
C9_RunEndsCompleted ==
    \A r \in Reqs :
        (/\ run[r].pc = "done"
         /\ creq[r].task_id \in DOMAIN store
         /\ run[r].outcome = "rolled_back" => run[r].extraction = "raised") =>
            store[creq[r].task_id].extracted_json # JNull

\* C10 (as claimed): when the collaborator call raises, the run rolls back and
\* then stores and commits {} for the task, so {} is stored after the run.
C10_RaiseStoresEmpty ==
    \A r \in Reqs :
        (run[r].pc = "done" /\ run[r].extraction = "raised") =>
            store[creq[r].task_id].extracted_json = EmptyObj

\* The id a run works on, and whether its commit was reached and failed.
TaskOf(r) == creq[r].task_id
CommitFailed(r) ==
    run[r].outcome = "rolled_back" /\ run[r].extraction \in {"success", "failed"}

\* C11 (as claimed): whatever fails during a run (the lookup, the collaborator
\* call or the commit), process_task returns normally: no run ends with an
\* exception leaving it.
C11_NoErrorEscapes ==
    \A r \in Reqs :
        run[r].pc = "done" =>
            run[r].outcome \in {"not_found", "committed", "rolled_back"}

\* C12: process_task on a task_id that is absent from the store ends at once
\* and normally: the collaborator is not called, the store is left as it is
\* (no row created), the session is released, and the run stays ended.
C12_AbsentStep ==
    \A r \in Reqs :
        (/\ run[r].session = "none"
         /\ run'[r].session # "none"
         /\ TaskOf(r) \notin DOMAIN store) =>
            /\ run'[r] = [NoRun EXCEPT !.pc = "done", !.session = "closed",
                                       !.outcome = "not_found"]
            /\ store' = store

C12_AbsentIsNoOp ==
    /\ [](\A r \in Reqs :
            run[r].outcome = "not_found" =>
                run[r].pc = "done" /\ run[r].extraction = "none")
    /\ [][C12_AbsentStep]_vars

\* process_task has been called for an id that no row carries, next to a
\* stored task, and has ended as not found.
C12_Witness ==
    \E r \in Reqs :
        /\ run[r].outcome = "not_found"
        /\ run[r].pc = "done"
        /\ TaskOf(r) \notin DOMAIN store
        /\ DOMAIN store # {}

\* C13: a process_task run exists only for a create_task whose commit has
\* succeeded: the row of its task is in the store from the moment the run is
\* scheduled, and the run never finds its task missing.
C13_ProcessingAfterCommit ==
    \A r \in Reqs :
        run[r].pc # "none" =>
            /\ r \in CommittedReqs
            /\ TaskOf(r) \in DOMAIN store
            /\ store[TaskOf(r)].image_data = creq[r].contents
            /\ run[r].outcome # "not_found"

\* A run has read its row while another create_task has failed.
C13_Witness ==
    \E r, q \in Reqs :
        /\ run[r].pc = "loaded"
        /\ run[r].image = creq[r].contents
        /\ creq[q].pc = "failed"

\* C14 (as claimed): when two invocations work on the same task, the commit
\* of the one that commits after the other leaves its own result stored.
C14_LastCommitStep ==
    \A r \in Reqs :
        (/\ run[r].pc = "parsed"
         /\ run'[r].outcome = "committed"
         /\ \E q \in Reqs \ {r} :
               TaskOf(q) = TaskOf(r) /\ run[q].outcome = "committed") =>
            store'[TaskOf(r)].extracted_json = run[r].json_data

C14_LastCommitWins == [][C14_LastCommitStep]_vars

\* C15 (as claimed): the one run scheduled for a task performs exactly one
\* committed write of its result, the full result on success and {} when the
\* extraction failed (runs whose commit itself failed aside).
C15_ExactlyOneWrite ==
    \A r \in Reqs :
        (run[r].pc = "done" /\ ~CommitFailed(r)) =>
            /\ run[r].outcome = "committed"
            /\ store[TaskOf(r)].extracted_json =
                   IF run[r].extraction = "success" THEN run[r].json_data
                   ELSE EmptyObj

\* C16: a create_task whose commit fails ends with an error: it returns no
\* task_id, schedules no run, and neither adds nor changes a row (a row of
\* that id, if any, belongs to another request that committed it).
C16_FailedStep ==
    \A r \in Reqs :
        (creq[r].pc = "idle" /\ creq'[r].pc = "failed") => store' = store

C16_FailedCreateLeavesNothing ==
    /\ [](\A r \in Reqs :
            creq[r].pc = "failed" =>
                /\ creq[r].returned = NoId
                /\ run[r].pc = "none"
                /\ TaskOf(r) \in DOMAIN store =>
                       \E q \in CommittedReqs : TaskOf(q) = TaskOf(r))
    /\ [][C16_FailedStep]_vars

\* A create_task has failed and no row carries the id it drew, while the
\* other request's task is stored.
C16_Witness ==
    \E r \in Reqs :
        /\ creq[r].pc = "failed"
        /\ TaskOf(r) \notin DOMAIN store
        /\ DOMAIN store # {}

\* C17: when the commit of the result fails, the run ends without a retry and
\* the stored result stays null: get_task answers "processing" from then on.
C17_RunEnded ==
    \A r \in Reqs : run[r].pc = "done" => run'[r] = run[r]

C17_FailedCommitStaysProcessing ==
    /\ [](\A r \in Reqs :
            (run[r].pc = "done" /\ CommitFailed(r)) =>
                /\ store[TaskOf(r)].extracted_json = JNull
                /\ get_task(TaskOf(r)) = Processing
                /\ polled.task_id = TaskOf(r) => polled.resp.status # "completed")
    /\ [][C17_RunEnded]_vars

\* The commit of a full result has failed, the run is over and get_task has
\* answered "processing" for the task.
C17_Witness ==
    \E r \in Reqs :
        /\ run[r].pc = "done"
        /\ CommitFailed(r)
        /\ run[r].json_data = ReceiptA
        /\ polled = [task_id |-> TaskOf(r), resp |-> Processing]

\* C18: the stored tasks have pairwise different ids, one row per committed
\* create_task, and a successful create adds one row under an id that no row
\* carried and leaves every other row as it was.
C18_CreateStep ==
    \A r \in Reqs :
        (creq[r].pc = "idle" /\ creq'[r].pc = "committed") =>
            /\ creq'[r].task_id \notin DOMAIN store
            /\ creq'[r].task_id \notin {creq[q].returned : q \in Reqs}
            /\ DOMAIN store' = DOMAIN store \cup {creq'[r].task_id}
            /\ \A t \in DOMAIN store : store'[t] = store[t]

C18_UniqueIds ==
    /\ [](/\ Cardinality(DOMAIN store) = Cardinality(CommittedReqs)
          /\ \A r, q \in CommittedReqs : r # q => TaskOf(r) # TaskOf(q))
    /\ [][C18_CreateStep]_vars

\* A create_task has drawn the id of a stored, completed task and failed,
\* and the row still holds the first upload and its result.
C18_Witness ==
    \E r, q \in Reqs :
        /\ creq[r].pc = "responded"
        /\ creq[q].pc = "failed"
        /\ TaskOf(q) = TaskOf(r)
        /\ store[TaskOf(r)].image_data = creq[r].contents
        /\ store[TaskOf(r)].extracted_json = ReceiptA

\* C19: a stored row is never deleted and its image_data never changes, and
\* the bytes a run hands to the collaborator are the bytes uploaded.
C19_RowStep ==
    \A t \in DOMAIN store :
        t \in DOMAIN store' /\ store'[t].image_data = store[t].image_data

C19_ImageImmutable ==
    /\ [](\A r \in Reqs :
            run[r].pc \in {"loaded", "parsed"} =>
                /\ run[r].image = creq[r].contents
                /\ store[TaskOf(r)].image_data = creq[r].contents)
    /\ [][C19_RowStep]_vars

\* Two tasks with different uploads are stored; one is completed and the run
\* of the other has handed the second upload to the collaborator.
C19_Witness ==
    \E r, q \in Reqs :
        /\ run[r].pc = "done" /\ run[r].outcome = "committed"
        /\ store[TaskOf(r)].extracted_json = ReceiptA
        /\ store[TaskOf(r)].image_data = Images[1]
        /\ run[q].pc = "parsed"
        /\ run[q].image = Images[2]

\* C20: a run holds an open session only between its lookup and its end;
\* every ended run, whatever its exit, has released its session.
C20_SessionReleased ==
    \A r \in Reqs :
        /\ run[r].pc = "done" => run[r].session = "closed"
        /\ run[r].session = "open" => run[r].pc \in {"loaded", "parsed"}

\* One run has ended with the exception of its lookup leaving it, another as
\* not found; both sessions are closed.
C20_Witness ==
    \E r, q \in Reqs :
        /\ run[r].outcome = "escaped" /\ run[r].session = "closed"
        /\ run[q].outcome = "not_found" /\ run[q].session = "closed"

\* C21 (as claimed): what parse_image returns is always a mapping: the parsed
\* result when upload, model call and json.loads succeeded, {} when one of
\* them failed, and never null.
C21_ReturnsMapping ==
    \A r \in Reqs :
        run[r].pc = "parsed" =>
            /\ run[r].json_data \in {EmptyObj, ReceiptA}
            /\ run[r].extraction = "failed" => run[r].json_data = EmptyObj

\* C22: a step of the process_task run for task t removes no row, leaves the
\* rows of all other tasks as they are, and changes nothing of row t but
\* extracted_json and updated_at.
C22_RunStep ==
    \A r \in Reqs :
        run'[r] # run[r] =>
            \A t \in DOMAIN store :
                /\ t \in DOMAIN store'
                /\ t # TaskOf(r) => store'[t] = store[t]
                /\ store'[t].image_data = store[t].image_data
                /\ store'[t].created_at = store[t].created_at

C22_RunWritesOwnRowOnly == [][C22_RunStep]_vars

\* Two tasks are stored; the run of one has committed a full result while
\* the row of the other, whose run is under way, still has none.
C22_Witness ==
    \E r, q \in Reqs :
        /\ TaskOf(r) # TaskOf(q)
        /\ run[r].pc = "done" /\ run[r].outcome = "committed"
        /\ store[TaskOf(r)].extracted_json = ReceiptA
        /\ run[q].pc = "parsed"
        /\ store[TaskOf(q)].extracted_json = JNull

\* C23: a get_task call, for a stored or an unknown id and also while a run
\* for the task is under way, changes no row, no run and no create request.
C23_PollStep ==
    polled' # polled => store' = store /\ run' = run /\ creq' = creq

C23_GetTaskReadOnly == [][C23_PollStep]_vars

\* get_task has answered "processing" for a task whose run holds a parsed
\* result that is not yet committed; the clock has moved on since the insert.
C23_Witness ==
    \E r \in Reqs :
        /\ run[r].pc = "parsed"
        /\ run[r].json_data = ReceiptA
        /\ polled = [task_id |-> TaskOf(r), resp |-> Processing]
        /\ now > store[TaskOf(r)].created_at

\* C24: updated_at is never earlier than created_at; a step that changes a
\* row's extracted_json sets its updated_at to the time of the write; and
\* updated_at changes only where a run commits: get_task and a run that is
\* rolled back leave every row as it is.
C24_StampStep ==
    /\ \A t \in DOMAIN store :
          /\ store'[t].extracted_json # store[t].extracted_json =>
                 /\ store'[t].updated_at = now
                 /\ store'[t].updated_at >= store'[t].created_at
          /\ store'[t].updated_at # store[t].updated_at =>
                 \E r \in Reqs : /\ TaskOf(r) = t
                                 /\ run[r].pc = "parsed"
                                 /\ run'[r].outcome = "committed"
    /\ polled' # polled => store' = store
    /\ \A r \in Reqs :
          (run'[r].outcome = "rolled_back" /\ run[r].outcome # "rolled_back") =>
              store' = store

C24_UpdatedAtRefreshed ==
    /\ [](\A t \in DOMAIN store :
            /\ store[t].updated_at >= store[t].created_at
            /\ store[t].updated_at <= now
            /\ store[t].extracted_json = JNull =>
                   store[t].updated_at = store[t].created_at)
    /\ [][C24_StampStep]_vars

\* A run has committed a full result after the clock moved on: the row's
\* updated_at is the time of that write, later than its created_at.
C24_Witness ==
    \E r \in Reqs :
        /\ run[r].outcome = "committed"
        /\ store[TaskOf(r)].extracted_json = ReceiptA
        /\ store[TaskOf(r)].updated_at = now
        /\ store[TaskOf(r)].updated_at > store[TaskOf(r)].created_at

====
